---- MODULE Spec2Model ----
(***************************************************************************)
(* Borochov/ProcessingThreads: the bounded blocking Queue<T> (queue.h),    *)
(* the producer threads that own one queue each, the processing threads    *)
(* that move values between queues and apply functions, and main.          *)
(*                                                                         *)
(* Two environments drive the same Queue code:                             *)
(*   SpecQueue  client threads calling push/pop on one queue, as the queue *)
(*              tests do;                                                  *)
(*   Spec       the program: DataThread, FunctionThread, ProcessingThread  *)
(*              and main.                                                  *)
(***************************************************************************)
EXTENDS Integers, Sequences, FiniteSets, TLC

\* ---------------------------------------------------------------- bounds
\* Largest capacity a queue is constructed with.
MaxCap == 2
\* Number of push/pop calls one client thread of the queue tests makes.
MaxOps == 2
\* Largest number of applied functions main is started with (NA).
MaxTarget == 1

\* --------------------------------------------------------------- threads
Clients == {"c1", "c2", "c3"}
DataThreadIds == {"d1", "d2"}
FunctionThreadIds == {"f1", "f2"}
ProcessingThreadIds == {"p1", "p2"}
Main == "main"
Producers == DataThreadIds \cup FunctionThreadIds
Threads == Clients \cup Producers \cup ProcessingThreadIds \cup {Main}

\* The queue the client threads share; a producer's queue goes by the
\* producer's name (DataThread::dataQueue, FunctionThread::functionQueue).
HQ == "hq"
Queues == {HQ} \cup Producers

NoOwner == "none"

Range(s) == {s[i] : i \in 1..Len(s)}

VARIABLES
    elements,      \* Queue::elements, per queue: the FIFO buffer
    maxCapacity,   \* Queue::maxCapacity, per queue
    mtx,           \* Queue::mtx, per queue: the thread that holds it, or NoOwner
    frame,         \* per thread: the Queue call it is in, and where in it
    ret,           \* per thread: the value its last completed call returned
    pushed,        \* history: the values appended to HQ, in order of appending
    popped,        \* history: the values removed from HQ, in order of removal
    took,          \* history, per processing thread: the queues its pops of
                   \* the current iteration removed an item from
    role,          \* per client: which calls it makes
    calls,         \* per client: the number of calls it has made
    pc,            \* per program thread: where it is in its code
    qa, qb,        \* per processing thread: source and dest of a transfer,
                   \* functionThread and dataThread of an application
    func,          \* per processing thread: func of processFunctionWithData
    args,          \* per processing thread: args of processFunctionWithData
    executions,    \* history: the function executions logged (line 319)
    shouldStop,    \* BaseThread::shouldStop, per program thread
    functionsProcessed,  \* main's atomic<int> functionsProcessed
    maxFunctions,  \* NA, ProcessingThread::maxFunctions
    dataThreads,   \* main's vector dataThreads
    functionThreads,     \* main's vector functionThreads
    processingThreads,   \* main's vector processingThreads
    globalRunningID,     \* queue.h's static globalRunningID, one per translation unit
    uniqueId,      \* Queue::uniqueId, per queue; NoId before construction
    descriptor,    \* the ArithmeticFunction requiredArgs is called on
    needed,        \* what requiredArgs returned; NotEvaluated before the call
    fnArgs,        \* the args vector applyFunction is called with
    resolved,      \* <<left, right>> of applyFunction; <<>> before the call
    result,        \* what applyFunction returned, or that it threw
    argv,          \* main's arguments after the program name, each a string
    exitStatus,    \* what main returns; NotStarted before it has read argv
    created        \* the number of threads (and so of queues) main created

qvars == <<elements, maxCapacity, mtx, frame, ret, pushed, popped, took>>
cvars == <<role, calls>>
ivars == <<globalRunningID, uniqueId>>
avars == <<descriptor, needed, fnArgs, resolved, result>>
svars == <<argv, exitStatus, created>>
evars == <<globalRunningID, uniqueId, descriptor, needed, fnArgs, resolved, result,
           argv, exitStatus, created>>
wvars == <<pc, qa, qb, func, args, executions>>
gvars == <<shouldStop, functionsProcessed, maxFunctions, dataThreads,
           functionThreads, processingThreads>>
vars == <<elements, maxCapacity, mtx, frame, ret, pushed, popped, took,
          role, calls, pc, qa, qb, func, args, executions,
          shouldStop, functionsProcessed, maxFunctions, dataThreads,
          functionThreads, processingThreads, globalRunningID, uniqueId,
          descriptor, needed, fnArgs, resolved, result,
          argv, exitStatus, created>>

\* ----------------------------------------------------------- DataValue
\* variant<int, float, complex<double>>: the alternative held, and the number.
IntV(n) == [tag |-> "int", re |-> n, im |-> 0]
FloatV(n) == [tag |-> "float", re |-> n, im |-> 0]
ComplexV(a, b) == [tag |-> "complex", re |-> a, im |-> b]

\* ------------------------------------------------------------ Queue<T>
\* No item: what a thread holds before a pop has returned one to it.
NoValue == [tag |-> "none", re |-> 0, im |-> 0]
NoCall == [op |-> "none", q |-> "none", at |-> "none", elem |-> NoValue]

\* A call frame on entry: the thread is at the construction of the lock.
Call(op, q, elem) == [op |-> op, q |-> q, at |-> "lock", elem |-> elem]

\* Mutation: push does not wait at all.
NotFullOff(s, c) == TRUE

\* Mutation: the comparison of the wait predicate is off by one.
NotFullBad(s, c) == c < 0 \/ Len(s) <= c

\* push's wait predicate: elements.size() < static_cast<size_t>(maxCapacity).
\* A negative capacity converts to a size_t above every reachable size.
NotFull(s, c) == c < 0 \/ Len(s) < c

\* pop's wait predicate: !elements.empty()
NotEmpty(s) == s # <<>>

\* elements.push(elem)
ElementsPush(s, e) == Append(s, e)

\* Mutation: pop returns the back of the queue.
ElementsFrontBad(s) == s[Len(s)]

\* elements.front()
ElementsFront(s) == Head(s)

\* Mutation: pop empties the queue.
ElementsPopBad(s) == <<>>

\* elements.pop()
ElementsPop(s) == Tail(s)

\* The threads blocked in cv.wait on queue q: push and pop share the one cv.
Parked(q) == {u \in Threads : frame[u].q = q /\ frame[u].at = "wait"}

\* Mutation: no notification is sent.
NotifyNone(f, q) == {f}

\* cv.notify_one(): one of the threads blocked on the cv, whichever, leaves
\* the wait and goes on to reacquire the mutex; nothing happens if none waits.
NotifyOne(f, q) ==
    IF Parked(q) = {}
    THEN {f}
    ELSE {[f EXCEPT ![u].at = "woken"] : u \in Parked(q)}

\* unique_lock<mutex> lock(mtx), and the reacquisition at the end of a wait.
QLock(t) ==
    /\ frame[t].at \in {"lock", "woken"}
    /\ mtx[frame[t].q] = NoOwner
    /\ mtx' = [mtx EXCEPT ![frame[t].q] = t]
    /\ frame' = [frame EXCEPT ![t].at = "cs"]
    /\ UNCHANGED <<elements, maxCapacity, ret, pushed, popped, took>>

\* Queue::push with the mutex held: wait while full, else append, notify
\* and return (the lock's destructor releases the mutex).
QPush(t) ==
    LET q == frame[t].q IN
    /\ frame[t].op = "push"
    /\ frame[t].at = "cs"
    /\ mtx' = [mtx EXCEPT ![q] = NoOwner]
    /\ IF NotFull(elements[q], maxCapacity[q])
       THEN /\ elements' = [elements EXCEPT ![q] = ElementsPush(@, frame[t].elem)]
            /\ pushed' = IF q = HQ THEN Append(pushed, frame[t].elem) ELSE pushed
            /\ frame' \in NotifyOne([frame EXCEPT ![t] = NoCall], q)
            /\ ret' = [ret EXCEPT ![t] = NoValue]
       ELSE /\ frame' = [frame EXCEPT ![t].at = "wait"]
            /\ UNCHANGED <<elements, pushed, ret>>
    /\ UNCHANGED <<maxCapacity, popped, took>>

\* Mutation: a pop that waits keeps the mutex.
QPopBad(t) ==
    LET q == frame[t].q IN
    /\ frame[t].op = "pop"
    /\ frame[t].at = "cs"
    /\ IF NotEmpty(elements[q])
       THEN /\ mtx' = [mtx EXCEPT ![q] = NoOwner]
            /\ ret' = [ret EXCEPT ![t] = ElementsFront(elements[q])]
            /\ elements' = [elements EXCEPT ![q] = ElementsPop(@)]
            /\ popped' = IF q = HQ THEN Append(popped, ElementsFront(elements[q])) ELSE popped
            /\ took' = IF t \in ProcessingThreadIds
                       THEN [took EXCEPT ![t] = Append(@, q)] ELSE took
            /\ frame' \in NotifyOne([frame EXCEPT ![t] = NoCall], q)
       ELSE /\ frame' = [frame EXCEPT ![t].at = "wait"]
            /\ UNCHANGED <<mtx, elements, popped, took, ret>>
    /\ UNCHANGED <<maxCapacity, pushed>>

\* Queue::pop with the mutex held: wait while empty, else remove the front,
\* notify and return it.
QPop(t) ==
    LET q == frame[t].q IN
    /\ frame[t].op = "pop"
    /\ frame[t].at = "cs"
    /\ mtx' = [mtx EXCEPT ![q] = NoOwner]
    /\ IF NotEmpty(elements[q])
       THEN /\ ret' = [ret EXCEPT ![t] = ElementsFront(elements[q])]
            /\ elements' = [elements EXCEPT ![q] = ElementsPop(@)]
            /\ popped' = IF q = HQ THEN Append(popped, ElementsFront(elements[q])) ELSE popped
            /\ took' = IF t \in ProcessingThreadIds
                       THEN [took EXCEPT ![t] = Append(@, q)] ELSE took
            /\ frame' \in NotifyOne([frame EXCEPT ![t] = NoCall], q)
       ELSE /\ frame' = [frame EXCEPT ![t].at = "wait"]
            /\ UNCHANGED <<elements, popped, took, ret>>
    /\ UNCHANGED <<maxCapacity, pushed>>

\* Mutation: a wait that returns without a notification ends the call, the
\* predicate not being evaluated again.
SpuriousWakeBad(t) ==
    /\ frame[t].at = "wait"
    /\ frame' = [frame EXCEPT ![t] = NoCall]
    /\ UNCHANGED <<elements, maxCapacity, mtx, ret, pushed, popped, took>>

\* condition_variable::wait may return without a notification; the predicate
\* is then evaluated again under the mutex.
SpuriousWake(t) ==
    /\ frame[t].at = "wait"
    /\ frame' = [frame EXCEPT ![t].at = "woken"]
    /\ UNCHANGED <<elements, maxCapacity, mtx, ret, pushed, popped, took>>

\* Queue::size() and Queue::empty(): a lock_guard around one read, so the
\* read happens at an instant at which no other thread holds the mutex.
QSize(q) == Len(elements[q])
QEmpty(q) == elements[q] = <<>>

\* Mutation: size() and empty() also wait until no thread is parked.
QReadableBad(q) == mtx[q] = NoOwner /\ Parked(q) = {}

QReadable(q) == mtx[q] = NoOwner

\* ------------------------------------------------------------ queue ids
\* queue.h defines globalRunningID as a static variable at namespace scope:
\* every translation unit that includes the header has a counter of its own.
\* A process is built from threads.cpp and from the unit that holds main
\* (main.cpp, or test_main.cpp for the tests).
TranslationUnits == {"threads.cpp", "main"}

\* Queue::uniqueId of a queue that is not constructed yet.
NoId == -1

\* The units whose counter the constructor of queue q may use.  HQ is a
\* Queue<int> constructed by the tests; a function queue is constructed in
\* threads.cpp only; Queue<DataValue> is constructed in threads.cpp and in the
\* tests, so the one constructor the linker keeps is that of either unit.
CounterUnits(q) ==
    IF q = HQ THEN {"main"}
    ELSE IF q \in FunctionThreadIds THEN {"threads.cpp"}
    ELSE TranslationUnits

\* The capacities a caller passes to Queue(int capacity), DataThread(id,
\* queueCapacity) and FunctionThread(id, queueCapacity): any int.
ConstructorCapacities == (0 - 1)..MaxCap

\* Queue::Queue: maxCapacity(capacity), the argument as it is, and
\* uniqueId(globalRunningID++), an atomic post-increment.
Construct(q) ==
    /\ uniqueId[q] = NoId
    /\ \E c \in ConstructorCapacities :
        maxCapacity' = [maxCapacity EXCEPT ![q] = c]
    /\ \E u \in CounterUnits(q) :
        /\ uniqueId' = [uniqueId EXCEPT ![q] = globalRunningID[u]]
        /\ globalRunningID' = [globalRunningID EXCEPT ![u] = @ + 1]
    /\ UNCHANGED <<elements, mtx, frame, ret, pushed, popped, took>>
    /\ UNCHANGED <<cvars, wvars, gvars, avars, svars>>

\* The place of x in sequence s.
IndexOf(s, x) == CHOOSE i \in 1..Len(s) : s[i] = x

\* ------------------------------------------------- queue test clients
ClientNo(t) == CASE t = "c1" -> 1 [] t = "c2" -> 2 [] OTHER -> 3

\* The value a client pushes: each pushed value is distinct.
ClientValue(t) == IntV(ClientNo(t) * 10 + calls[t] + 1)

ClientPush(t) ==
    /\ frame[t] = NoCall
    /\ calls[t] < MaxOps
    /\ role[t] \in {"pusher", "both"}
    /\ frame' = [frame EXCEPT ![t] = Call("push", HQ, ClientValue(t))]
    /\ calls' = [calls EXCEPT ![t] = @ + 1]
    /\ UNCHANGED <<elements, maxCapacity, mtx, ret, pushed, popped, took, role>>
    /\ UNCHANGED <<wvars, gvars, evars>>

ClientPop(t) ==
    /\ frame[t] = NoCall
    /\ calls[t] < MaxOps
    /\ role[t] \in {"popper", "both"}
    /\ frame' = [frame EXCEPT ![t] = Call("pop", HQ, NoValue)]
    /\ calls' = [calls EXCEPT ![t] = @ + 1]
    /\ UNCHANGED <<elements, maxCapacity, mtx, ret, pushed, popped, took, role>>
    /\ UNCHANGED <<wvars, gvars, evars>>

\* The program's threads do not exist in the queue tests, and the clients do
\* not exist in the program.
NoFunc == [op |-> "none", left |-> <<>>, right |-> <<>>]
NoProgram ==
    /\ pc = [t \in Producers \cup ProcessingThreadIds \cup {Main} |-> "off"]
    /\ qa = [w \in ProcessingThreadIds |-> "none"]
    /\ qb = [w \in ProcessingThreadIds |-> "none"]
    /\ func = [w \in ProcessingThreadIds |-> NoFunc]
    /\ args = [w \in ProcessingThreadIds |-> <<>>]
    /\ executions = 0
    /\ shouldStop = [t \in Producers \cup ProcessingThreadIds |-> FALSE]
    /\ functionsProcessed = 0
    /\ maxFunctions = 0
    /\ dataThreads = <<>>
    /\ functionThreads = <<>>
    /\ processingThreads = <<>>

\* requiredArgs has not been called.
NotEvaluated == -1
NoResult == [tag |-> "none", re |-> 0, im |-> 0, den |-> 1]
NoEvaluation ==
    /\ descriptor = NoFunc
    /\ needed = NotEvaluated
    /\ fnArgs = <<>>
    /\ resolved = <<>>
    /\ result = NoResult

\* main has not read its arguments.
NotStarted == -1
NoStartup == argv = <<>> /\ exitStatus = NotStarted /\ created = 0

InitQueue ==
    /\ elements = [q \in Queues |-> <<>>]
    /\ \E c \in 1..MaxCap : maxCapacity = [q \in Queues |-> c]
    /\ mtx = [q \in Queues |-> NoOwner]
    /\ frame = [t \in Threads |-> NoCall]
    /\ ret = [t \in Threads |-> NoValue]
    /\ pushed = <<>>
    /\ popped = <<>>
    /\ took = [w \in ProcessingThreadIds |-> <<>>]
    /\ role \in [Clients -> {"pusher", "popper", "both"}]
    /\ calls = [t \in Clients |-> 0]
    /\ NoProgram
    /\ NoEvaluation
    /\ NoStartup
    /\ uniqueId = [q \in Queues |-> IF q = HQ THEN 0 ELSE NoId]
    /\ globalRunningID = [u \in TranslationUnits |-> IF u = "main" THEN 1 ELSE 0]

QueueStep(t) ==
    \/ QLock(t) /\ UNCHANGED <<cvars, evars, wvars, gvars>>
    \/ QPush(t) /\ UNCHANGED <<cvars, evars, wvars, gvars>>
    \/ QPop(t) /\ UNCHANGED <<cvars, evars, wvars, gvars>>

NextQueue ==
    \/ \E t \in Clients : QueueStep(t)
    \/ \E t \in Clients : SpuriousWake(t) /\ UNCHANGED <<cvars, evars, wvars, gvars>>
    \/ \E t \in Clients : ClientPush(t)
    \/ \E t \in Clients : ClientPop(t)

SpecQueue == InitQueue /\ [][NextQueue]_vars

\* The scheduler runs every thread that holds a mutex, and a thread that finds
\* the mutex free again and again eventually acquires it. A wait that returns
\* without a notification is never owed.
FairSpecQueue ==
    /\ SpecQueue
    /\ \A t \in Clients : SF_vars(QLock(t) /\ UNCHANGED <<cvars, evars, wvars, gvars>>)
    /\ \A t \in Clients : WF_vars((QPush(t) \/ QPop(t)) /\ UNCHANGED <<cvars, evars, wvars, gvars>>)

\* ---------------------------------------------------- generated items
\* The value generateRandomValue is taken to draw in each data thread: one
\* value per thread, so that a value names the queue it was generated into.
GeneratedValues(t) == IF t = "d1" THEN {IntV(3)} ELSE {IntV(0)}

\* ArithmeticFunction: an optional operand is <<>> or <<value>>.
Fn(op, l, r) == [op |-> op, left |-> l, right |-> r]

\* The functions generateRandomFunction is taken to draw.  f1 draws one for
\* each number of arguments, the one with one argument dividing by a
\* constant 0; f2 draws only the function that takes both operands from the
\* data queue.
GeneratedFunctions(t) ==
    IF t = "f1"
    THEN { Fn("DIVIDE", <<>>, <<>>),
           Fn("DIVIDE", <<>>, <<IntV(0)>>),
           Fn("ADD", <<IntV(1)>>, <<IntV(2)>>) }
    ELSE { Fn("DIVIDE", <<>>, <<>>) }

\* Mutation: only the left operand is looked at.
RequiredArgsBad(f) == IF f.left = <<>> THEN 1 ELSE 0

\* ArithmeticFunction::requiredArgs
RequiredArgs(f) ==
    (IF f.left = <<>> THEN 1 ELSE 0) + (IF f.right = <<>> THEN 1 ELSE 0)

\* Mutation: a popped value takes the place of a fixed left operand.
LeftOperandBad(f, a) == IF a # <<>> THEN a[1] ELSE f.left[1]

\* applyFunction: the operands, args being 1-based here.
LeftOperand(f, a) == IF f.left # <<>> THEN f.left[1] ELSE a[1]
RightOperand(f, a) ==
    IF f.right # <<>> THEN f.right[1] ELSE a[IF f.left # <<>> THEN 1 ELSE 2]

\* applyFunction throws "Division by zero": abs(b) < 1e-10 on a DIVIDE. The
\* numbers of the model are integers, so the magnitude is below 1e-10 at 0.
ApplyThrows(f, a) ==
    /\ f.op = "DIVIDE"
    /\ RightOperand(f, a).re = 0
    /\ RightOperand(f, a).im = 0

\* The quotient of int operands: a / b of C++ truncates toward zero.
TruncDiv(a, b) ==
    LET q == (IF a < 0 THEN 0 - a ELSE a) \div (IF b < 0 THEN 0 - b ELSE b)
    IN  IF (a < 0) = (b < 0) THEN q ELSE 0 - q

\* Mutation: an int and a float have the common type int.
CommonTypeBad(s, t) ==
    IF "complex" \in {s, t} THEN "complex" ELSE IF "int" \in {s, t} THEN "int" ELSE "float"

\* common_type_t of the operands' alternatives: complex<double> with a
\* complex operand, else float with a float operand, else int.
CommonType(s, t) ==
    IF "complex" \in {s, t} THEN "complex" ELSE IF "float" \in {s, t} THEN "float" ELSE "int"

\* What applyFunction returns when it does not throw: the DataValue holding
\* a T, the number being (re + im i) / den. den is 1 but for the quotient
\* of floats and of complex numbers, which is kept as numerator and
\* denominator; the operands of the model are small integers, on which the
\* other operations are exact in float and double.
ApplyResult(f, a) ==
    LET x == LeftOperand(f, a)
        y == RightOperand(f, a)
        T == CommonType(x.tag, y.tag)
    IN  CASE f.op = "ADD" ->
               [tag |-> T, re |-> x.re + y.re, im |-> x.im + y.im, den |-> 1]
          [] f.op = "SUBTRACT" ->
               [tag |-> T, re |-> x.re - y.re, im |-> x.im - y.im, den |-> 1]
          [] f.op = "MULTIPLY" ->
               [tag |-> T, re |-> x.re * y.re - x.im * y.im,
                im |-> x.re * y.im + x.im * y.re, den |-> 1]
          [] OTHER ->
               IF T = "int"
               THEN [tag |-> T, re |-> TruncDiv(x.re, y.re), im |-> 0, den |-> 1]
               ELSE IF T = "float"
               THEN [tag |-> T, re |-> x.re, im |-> 0, den |-> y.re]
               ELSE [tag |-> T, re |-> x.re * y.re + x.im * y.im,
                     im |-> x.im * y.re - x.re * y.im,
                     den |-> y.re * y.re + y.im * y.im]

\* applyFunction has thrown.
Threw == [tag |-> "threw", re |-> 0, im |-> 0, den |-> 1]

\* Mutation: the data thread pushes the value into the queue of the other
\* data thread.
DataGenerateBad(t) ==
    /\ pc[t] = "run"
    /\ frame[t] = NoCall
    /\ ~shouldStop[t]
    /\ \E v \in GeneratedValues(t) :
        frame' = [frame EXCEPT ![t] = Call("push", CHOOSE q \in DataThreadIds : q # t, v)]
    /\ UNCHANGED <<elements, maxCapacity, mtx, ret, pushed, popped, took>>
    /\ UNCHANGED <<cvars, evars, wvars, gvars>>

\* ----------------------------------------------------------- producers
\* DataThread::workLoop, while (!shouldStop): generate a value and push it
\* into the own queue. The logging and the sleep that follow the push change
\* nothing.
DataGenerate(t) ==
    /\ pc[t] = "run"
    /\ frame[t] = NoCall
    /\ ~shouldStop[t]
    /\ \E v \in GeneratedValues(t) : frame' = [frame EXCEPT ![t] = Call("push", t, v)]
    /\ UNCHANGED <<elements, maxCapacity, mtx, ret, pushed, popped, took>>
    /\ UNCHANGED <<cvars, evars, wvars, gvars>>

\* FunctionThread::workLoop, while (!shouldStop): generate a function and
\* push it into the own queue.
FunctionGenerate(t) ==
    /\ pc[t] = "run"
    /\ frame[t] = NoCall
    /\ ~shouldStop[t]
    /\ \E f \in GeneratedFunctions(t) : frame' = [frame EXCEPT ![t] = Call("push", t, f)]
    /\ UNCHANGED <<elements, maxCapacity, mtx, ret, pushed, popped, took>>
    /\ UNCHANGED <<cvars, evars, wvars, gvars>>

\* The while condition of a producer's workLoop fails: the loop is left.
ProducerExit(t) ==
    /\ pc[t] = "run"
    /\ frame[t] = NoCall
    /\ shouldStop[t]
    /\ pc' = [pc EXCEPT ![t] = "done"]
    /\ UNCHANGED <<qa, qb, func, args, executions>>
    /\ UNCHANGED <<qvars, cvars, evars, gvars>>

\* ---------------------------------------------------- ProcessingThread
\* An iteration is over: its locals are gone, the loop condition is next.
EndIteration(w) ==
    /\ pc' = [pc EXCEPT ![w] = "loop"]
    /\ took' = [took EXCEPT ![w] = <<>>]
    /\ qa' = [qa EXCEPT ![w] = "none"]
    /\ qb' = [qb EXCEPT ![w] = "none"]
    /\ func' = [func EXCEPT ![w] = NoFunc]
    /\ args' = [args EXCEPT ![w] = <<>>]

\* Mutation: the loop goes on with the counter at the target.
LoopConditionLate(w) == ~shouldStop[w] /\ functionsProcessed <= maxFunctions

\* Mutation: the loop condition does not read the counter.
LoopConditionBad(w) == ~shouldStop[w]

\* while (!shouldStop && functionsProcessed.load() < maxFunctions)
LoopCondition(w) == ~shouldStop[w] /\ functionsProcessed < maxFunctions

\* The while condition of ProcessingThread::workLoop fails: the loop is left.
ProcessingExit(w) ==
    /\ pc[w] = "loop"
    /\ ~LoopCondition(w)
    /\ pc' = [pc EXCEPT ![w] = "done"]
    /\ UNCHANGED <<qa, qb, func, args, executions>>
    /\ UNCHANGED <<qvars, cvars, evars, gvars>>

\* Mutation: the second index is not drawn again when it equals the first.
SelectTwoRandomQueuesBad ==
    IF Len(dataThreads) + Len(functionThreads) < 2
    THEN {<<-1, -1>>}
    ELSE (0..Len(dataThreads) + Len(functionThreads) - 1)
            \X (0..Len(dataThreads) + Len(functionThreads) - 1)

\* selectTwoRandomQueues: {-1, -1} with fewer than two queues, else any two
\* different indices of 0..totalQueues-1.
TotalQueues == Len(dataThreads) + Len(functionThreads)
SelectTwoRandomQueues ==
    IF TotalQueues < 2
    THEN {<<-1, -1>>}
    ELSE {<<i, j>> \in (0..TotalQueues - 1) \X (0..TotalQueues - 1) : i # j}

\* Mutation: every index of a function queue addresses the first one.
FunctionIndexBad(idx) == 0

\* secondIdx - dataSize, firstIdx - dataSize: the place of a function queue
\* in functionThreads, 0-based.
FunctionIndex(idx) == idx - Len(dataThreads)

\* workLoop, the dispatch on a selected pair: what is called, and on which
\* two queues. Two data indices: processDataToData(source, dest); two
\* function indices: nothing; else processFunctionWithData(funcThread,
\* dataThread), whichever index is the data one.
Addressed(firstIdx, secondIdx) ==
    LET dataSize == Len(dataThreads)
        firstIsData == firstIdx < dataSize
        secondIsData == secondIdx < dataSize
    IN  IF firstIsData /\ secondIsData
        THEN [at |-> "dd_empty1",
              first |-> dataThreads[firstIdx + 1],
              second |-> dataThreads[secondIdx + 1]]
        ELSE IF ~firstIsData /\ ~secondIsData
        THEN [at |-> "ff",
              first |-> functionThreads[FunctionIndex(firstIdx) + 1],
              second |-> functionThreads[FunctionIndex(secondIdx) + 1]]
        ELSE [at |-> "fd_empty",
              first |-> IF firstIsData
                        THEN functionThreads[FunctionIndex(secondIdx) + 1]
                        ELSE functionThreads[FunctionIndex(firstIdx) + 1],
              second |-> IF firstIsData
                         THEN dataThreads[firstIdx + 1]
                         ELSE dataThreads[secondIdx + 1]]

\* workLoop, an iteration up to the dispatch: without queues or without a
\* pair the iteration is skipped (sleep, continue); the pair selected is
\* two data queues (transfer), two function queues (ignored), or one of each
\* (application).
ProcessingSelect(w) ==
    /\ pc[w] = "loop"
    /\ LoopCondition(w)
    /\ IF dataThreads = <<>> /\ functionThreads = <<>>
       THEN /\ pc' = [pc EXCEPT ![w] = "skip"]
            /\ UNCHANGED <<qa, qb>>
       ELSE \E sel \in SelectTwoRandomQueues :
            LET firstIdx == sel[1]
                secondIdx == sel[2]
            IN  IF firstIdx = -1 \/ secondIdx = -1
                THEN /\ pc' = [pc EXCEPT ![w] = "skip"]
                     /\ UNCHANGED <<qa, qb>>
                ELSE /\ pc' = [pc EXCEPT ![w] = Addressed(firstIdx, secondIdx).at]
                     /\ qa' = [qa EXCEPT ![w] = Addressed(firstIdx, secondIdx).first]
                     /\ qb' = [qb EXCEPT ![w] = Addressed(firstIdx, secondIdx).second]
    /\ UNCHANGED <<func, args, executions>>
    /\ UNCHANGED <<qvars, cvars, evars, gvars>>

\* workLoop: the sleep and continue of an iteration without queues or
\* without a pair.
SkipIteration(w) ==
    /\ pc[w] = "skip"
    /\ EndIteration(w)
    /\ UNCHANGED executions
    /\ UNCHANGED <<elements, maxCapacity, mtx, frame, ret, pushed, popped>>
    /\ UNCHANGED <<cvars, evars, gvars>>

\* Mutation: a pair of function queues is treated as an application.
IgnorePairBad(w) ==
    /\ pc[w] = "ff"
    /\ pc' = [pc EXCEPT ![w] = "fd_popf"]
    /\ frame' = [frame EXCEPT ![w] = Call("pop", qa[w], NoValue)]
    /\ UNCHANGED <<qa, qb, func, args, took, executions>>
    /\ UNCHANGED <<elements, maxCapacity, mtx, ret, pushed, popped>>
    /\ UNCHANGED <<cvars, evars, gvars>>

\* workLoop: log("Both queues are function queues, ignoring"), then the
\* sleep at the end of the iteration.
IgnorePair(w) ==
    /\ pc[w] = "ff"
    /\ EndIteration(w)
    /\ UNCHANGED executions
    /\ UNCHANGED <<elements, maxCapacity, mtx, frame, ret, pushed, popped>>
    /\ UNCHANGED <<cvars, evars, gvars>>

\* processDataToData: if (... source->isQueueEmpty()) return;
TransferEmpty1(w) ==
    /\ pc[w] = "dd_empty1"
    /\ QReadable(qa[w])
    /\ IF QEmpty(qa[w])
       THEN EndIteration(w)
       ELSE /\ pc' = [pc EXCEPT ![w] = "dd_empty2"]
            /\ UNCHANGED <<qa, qb, func, args, took>>
    /\ UNCHANGED executions
    /\ UNCHANGED <<elements, maxCapacity, mtx, frame, ret, pushed, popped>>
    /\ UNCHANGED <<cvars, evars, gvars>>

\* processDataToData: if (!source->isQueueEmpty()) value = source->popValue()
TransferEmpty2(w) ==
    /\ pc[w] = "dd_empty2"
    /\ QReadable(qa[w])
    /\ IF QEmpty(qa[w])
       THEN /\ EndIteration(w)
            /\ UNCHANGED frame
       ELSE /\ pc' = [pc EXCEPT ![w] = "dd_pop"]
            /\ frame' = [frame EXCEPT ![w] = Call("pop", qa[w], NoValue)]
            /\ UNCHANGED <<qa, qb, func, args, took>>
    /\ UNCHANGED executions
    /\ UNCHANGED <<elements, maxCapacity, mtx, ret, pushed, popped>>
    /\ UNCHANGED <<cvars, evars, gvars>>

\* Mutation: the value goes back into the queue it came from.
TransferPushBad(w) ==
    /\ pc[w] = "dd_pop"
    /\ frame[w] = NoCall
    /\ pc' = [pc EXCEPT ![w] = "dd_push"]
    /\ frame' = [frame EXCEPT ![w] = Call("push", qa[w], ret[w])]
    /\ ret' = [ret EXCEPT ![w] = NoValue]
    /\ UNCHANGED <<qa, qb, func, args, executions>>
    /\ UNCHANGED <<elements, maxCapacity, mtx, pushed, popped, took>>
    /\ UNCHANGED <<cvars, evars, gvars>>

\* processDataToData: dest->pushValue(value) with the value popValue returned
TransferPush(w) ==
    /\ pc[w] = "dd_pop"
    /\ frame[w] = NoCall
    /\ pc' = [pc EXCEPT ![w] = "dd_push"]
    /\ frame' = [frame EXCEPT ![w] = Call("push", qb[w], ret[w])]
    /\ ret' = [ret EXCEPT ![w] = NoValue]
    /\ UNCHANGED <<qa, qb, func, args, executions>>
    /\ UNCHANGED <<elements, maxCapacity, mtx, pushed, popped, took>>
    /\ UNCHANGED <<cvars, evars, gvars>>

\* processDataToData: pushValue has returned; log, return, sleep.
TransferDone(w) ==
    /\ pc[w] = "dd_push"
    /\ frame[w] = NoCall
    /\ EndIteration(w)
    /\ UNCHANGED executions
    /\ UNCHANGED <<elements, maxCapacity, mtx, frame, ret, pushed, popped>>
    /\ UNCHANGED <<cvars, evars, gvars>>

\* processFunctionWithData: if (... functionThread->isQueueEmpty()) return;
\* func = functionThread->popFunction()
ApplyEmpty(w) ==
    /\ pc[w] = "fd_empty"
    /\ QReadable(qa[w])
    /\ IF QEmpty(qa[w])
       THEN /\ EndIteration(w)
            /\ UNCHANGED frame
       ELSE /\ pc' = [pc EXCEPT ![w] = "fd_popf"]
            /\ frame' = [frame EXCEPT ![w] = Call("pop", qa[w], NoValue)]
            /\ UNCHANGED <<qa, qb, func, args, took>>
    /\ UNCHANGED executions
    /\ UNCHANGED <<elements, maxCapacity, mtx, ret, pushed, popped>>
    /\ UNCHANGED <<cvars, evars, gvars>>

\* Mutation: the counter is incremented whether applyFunction threw or not.
ApplyAndCountBad(w, f, a) ==
    /\ EndIteration(w)
    /\ functionsProcessed' = functionsProcessed + 1
    /\ executions' = IF ApplyThrows(f, a) THEN executions ELSE executions + 1

\* Mutation: what applyFunction throws is not caught and ends the thread.
ApplyAndCountEscapes(w, f, a) ==
    /\ took' = [took EXCEPT ![w] = <<>>]
    /\ qa' = [qa EXCEPT ![w] = "none"]
    /\ qb' = [qb EXCEPT ![w] = "none"]
    /\ func' = [func EXCEPT ![w] = NoFunc]
    /\ args' = [args EXCEPT ![w] = <<>>]
    /\ IF ApplyThrows(f, a)
       THEN /\ pc' = [pc EXCEPT ![w] = "done"]
            /\ UNCHANGED <<executions, functionsProcessed>>
       ELSE /\ pc' = [pc EXCEPT ![w] = "loop"]
            /\ executions' = executions + 1
            /\ functionsProcessed' = functionsProcessed + 1

\* Mutation: every function that needs an argument is given up.
InsufficientAlways(w, argsNeeded) == argsNeeded > 0

\* Mutation: the size check wants a value in the data queue even for a
\* function that needs none.
InsufficientBad(w, argsNeeded) == QSize(qb[w]) < argsNeeded \/ QEmpty(qb[w])

\* dataThread->getQueueSize() < argsNeeded
Insufficient(w, argsNeeded) == QSize(qb[w]) < argsNeeded

\* processFunctionWithData once every argument is in args: applyFunction,
\* then the log of the execution and functionsProcessed.fetch_add(1), or the
\* catch of what applyFunction threw.
ApplyAndCount(w, f, a) ==
    /\ EndIteration(w)
    /\ IF ApplyThrows(f, a)
       THEN UNCHANGED <<executions, functionsProcessed>>
       ELSE /\ executions' = executions + 1
            /\ functionsProcessed' = functionsProcessed + 1

\* processFunctionWithData: popFunction has returned; argsNeeded, then
\* if (dataThread->getQueueSize() < argsNeeded) return; else the first
\* popValue, or the application when no argument is needed.
ApplySize(w) ==
    /\ pc[w] = "fd_popf"
    /\ frame[w] = NoCall
    /\ QReadable(qb[w])
    /\ LET f == ret[w]
           argsNeeded == RequiredArgs(f)
       IN  IF Insufficient(w, argsNeeded)
           THEN /\ EndIteration(w)
                /\ UNCHANGED <<frame, executions, functionsProcessed>>
           ELSE IF argsNeeded = 0
           THEN /\ ApplyAndCount(w, f, <<>>)
                /\ UNCHANGED frame
           ELSE /\ pc' = [pc EXCEPT ![w] = "fd_arg"]
                /\ func' = [func EXCEPT ![w] = f]
                /\ frame' = [frame EXCEPT ![w] = Call("pop", qb[w], NoValue)]
                /\ UNCHANGED <<qa, qb, args, took, executions, functionsProcessed>>
    /\ ret' = [ret EXCEPT ![w] = NoValue]
    /\ UNCHANGED <<elements, maxCapacity, mtx, pushed, popped>>
    /\ UNCHANGED <<shouldStop, maxFunctions, dataThreads, functionThreads,
                   processingThreads>>
    /\ UNCHANGED <<cvars, evars>>

\* processFunctionWithData: a popValue has returned; args.push_back, then
\* the next popValue, or the application with the last argument.
ApplyArg(w) ==
    /\ pc[w] = "fd_arg"
    /\ frame[w] = NoCall
    /\ LET a == Append(args[w], ret[w])
       IN  IF Len(a) < RequiredArgs(func[w])
           THEN /\ args' = [args EXCEPT ![w] = a]
                /\ frame' = [frame EXCEPT ![w] = Call("pop", qb[w], NoValue)]
                /\ UNCHANGED <<pc, qa, qb, func, took, executions, functionsProcessed>>
           ELSE /\ ApplyAndCount(w, func[w], a)
                /\ UNCHANGED frame
    /\ ret' = [ret EXCEPT ![w] = NoValue]
    /\ UNCHANGED <<elements, maxCapacity, mtx, pushed, popped>>
    /\ UNCHANGED <<shouldStop, maxFunctions, dataThreads, functionThreads,
                   processingThreads>>
    /\ UNCHANGED <<cvars, evars>>

\* ----------------------------------------------------------------- main
MainLeavesOthers ==
    /\ UNCHANGED <<qa, qb, func, args, executions>>
    /\ UNCHANGED <<functionsProcessed, maxFunctions, dataThreads,
                   functionThreads, processingThreads>>
    /\ UNCHANGED <<qvars, cvars, evars>>

\* while (functionsProcessed.load() < NA) is left: the target is reached.
MainTargetReached ==
    /\ pc[Main] = "monitor"
    /\ functionsProcessed >= maxFunctions
    /\ pc' = [pc EXCEPT ![Main] = "stop_processing"]
    /\ UNCHANGED shouldStop
    /\ MainLeavesOthers

\* Mutation: the timeout is looked at only once the counter has advanced.
MainTimeoutBad ==
    /\ pc[Main] = "monitor"
    /\ functionsProcessed < maxFunctions
    /\ functionsProcessed > 0
    /\ pc' = [pc EXCEPT ![Main] = "stop_processing"]
    /\ UNCHANGED shouldStop
    /\ MainLeavesOthers

\* if (elapsed.count() > 60) break;
MainTimeout ==
    /\ pc[Main] = "monitor"
    /\ functionsProcessed < maxFunctions
    /\ pc' = [pc EXCEPT ![Main] = "stop_processing"]
    /\ UNCHANGED shouldStop
    /\ MainLeavesOthers

\* Mutation: stop() of some threads clears the flag of the others.
StopAllBad(vec) == [t \in DOMAIN shouldStop |-> t \in Range(vec)]

\* thread->stop() for every thread of one vector: shouldStop = true.
StopAll(vec) == [t \in DOMAIN shouldStop |-> shouldStop[t] \/ t \in Range(vec)]

\* for (auto& thread : processingThreads) thread->stop();
MainStopProcessing ==
    /\ pc[Main] = "stop_processing"
    /\ shouldStop' = StopAll(processingThreads)
    /\ pc' = [pc EXCEPT ![Main] = "stop_data"]
    /\ MainLeavesOthers

\* for (auto& thread : dataThreads) thread->stop();
MainStopData ==
    /\ pc[Main] = "stop_data"
    /\ shouldStop' = StopAll(dataThreads)
    /\ pc' = [pc EXCEPT ![Main] = "stop_function"]
    /\ MainLeavesOthers

\* for (auto& thread : functionThreads) thread->stop();
MainStopFunction ==
    /\ pc[Main] = "stop_function"
    /\ shouldStop' = StopAll(functionThreads)
    /\ pc' = [pc EXCEPT ![Main] = "report"]
    /\ MainLeavesOthers

\* The sleep of one second and the final statistics: getQueueSize of every
\* data thread and function thread.
MainReport ==
    /\ pc[Main] = "report"
    /\ \A q \in Range(dataThreads) \cup Range(functionThreads) : QReadable(q)
    /\ pc' = [pc EXCEPT ![Main] = "join"]
    /\ UNCHANGED shouldStop
    /\ MainLeavesOthers

\* The end of the try block destroys the three vectors; each thread's
\* destructor calls stop() once more and joins the thread, so main goes on
\* once every thread has left its workLoop.
MainJoin ==
    /\ pc[Main] = "join"
    /\ \A t \in Range(processingThreads) \cup Range(functionThreads)
                 \cup Range(dataThreads) : pc[t] = "done"
    /\ pc' = [pc EXCEPT ![Main] = "exit"]
    /\ shouldStop' = StopAll(processingThreads \o dataThreads \o functionThreads)
    /\ MainLeavesOthers

\* ------------------------------------------------------------ the program
\* A run of main: the three vectors it builds (ND, NF and NP threads) and
\* the capacity it gives the queues.
Cfg(d, f, p, c) == [data |-> d, function |-> f, processing |-> p, capacity |-> c]

\* The runs explored: two data queues and a processing thread (transfers);
\* a data queue, a function queue and a processing thread (applications);
\* the same with two processing threads, and with the data thread that
\* generates 0; two function queues; one queue;
\* no queue; no processing thread.  main gives the data queues the capacity
\* ND * 10 and the function queues NF * 10 (calculateQueueCapacity); the
\* capacity of a run stands for these, scaled down to at most MaxCap.
Configurations ==
    {Cfg(<<"d1", "d2">>, <<>>, <<"p1">>, c) : c \in 1..MaxCap}
    \cup {Cfg(<<"d1">>, <<"f1">>, <<"p1">>, c) : c \in 1..MaxCap}
    \cup { Cfg(<<"d1">>, <<"f1">>, <<"p1", "p2">>, 1),
           Cfg(<<"d1">>, <<"f2">>, <<"p1", "p2">>, MaxCap),
           Cfg(<<"d2">>, <<"f1">>, <<"p1">>, MaxCap),
           Cfg(<<>>, <<"f1", "f2">>, <<"p1">>, 1),
           Cfg(<<"d1">>, <<>>, <<"p1">>, 1),
           Cfg(<<>>, <<>>, <<"p1">>, 1),
           Cfg(<<"d1">>, <<"f1">>, <<>>, 1) }

Created == Range(dataThreads) \cup Range(functionThreads) \cup Range(processingThreads)

\* main after the creation of ND data threads, NF function threads and NP
\* processing threads, every one of them started by its constructor.
InitOf(configurations) ==
    /\ \E cfg \in configurations :
        /\ dataThreads = cfg.data
        /\ functionThreads = cfg.function
        /\ processingThreads = cfg.processing
        /\ maxCapacity = [q \in Queues |-> cfg.capacity]
    /\ maxFunctions \in 0..MaxTarget
    /\ elements = [q \in Queues |-> <<>>]
    /\ mtx = [q \in Queues |-> NoOwner]
    /\ frame = [t \in Threads |-> NoCall]
    /\ ret = [t \in Threads |-> NoValue]
    /\ pushed = <<>>
    /\ popped = <<>>
    /\ took = [w \in ProcessingThreadIds |-> <<>>]
    /\ role = [t \in Clients |-> "popper"]
    /\ calls = [t \in Clients |-> MaxOps]
    /\ pc = [t \in Producers \cup ProcessingThreadIds \cup {Main} |->
                IF t = Main THEN "monitor"
                ELSE IF t \in Range(dataThreads) \cup Range(functionThreads) THEN "run"
                ELSE IF t \in Range(processingThreads) THEN "loop"
                ELSE "off"]
    /\ qa = [w \in ProcessingThreadIds |-> "none"]
    /\ qb = [w \in ProcessingThreadIds |-> "none"]
    /\ func = [w \in ProcessingThreadIds |-> NoFunc]
    /\ args = [w \in ProcessingThreadIds |-> <<>>]
    /\ executions = 0
    /\ shouldStop = [t \in Producers \cup ProcessingThreadIds |-> FALSE]
    /\ functionsProcessed = 0
    /\ NoEvaluation
    /\ NoStartup
    /\ uniqueId = [q \in Queues |->
            IF q \in Range(dataThreads) THEN IndexOf(dataThreads, q) - 1
            ELSE IF q \in Range(functionThreads)
            THEN Len(dataThreads) + IndexOf(functionThreads, q) - 1
            ELSE NoId]
    /\ globalRunningID = [u \in TranslationUnits |->
            IF u = "threads.cpp" THEN Len(dataThreads) + Len(functionThreads) ELSE 0]

Init == InitOf(Configurations)

ProgramThreads == Producers \cup ProcessingThreadIds

Next ==
    \/ \E t \in ProgramThreads : QLock(t) /\ UNCHANGED <<cvars, evars, wvars, gvars>>
    \/ \E t \in ProgramThreads : QPush(t) /\ UNCHANGED <<cvars, evars, wvars, gvars>>
    \/ \E t \in ProgramThreads : QPop(t) /\ UNCHANGED <<cvars, evars, wvars, gvars>>
    \/ \E t \in ProgramThreads : SpuriousWake(t) /\ UNCHANGED <<cvars, evars, wvars, gvars>>
    \/ \E t \in DataThreadIds : DataGenerate(t)
    \/ \E t \in FunctionThreadIds : FunctionGenerate(t)
    \/ \E t \in Producers : ProducerExit(t)
    \/ \E w \in ProcessingThreadIds : ProcessingExit(w)
    \/ \E w \in ProcessingThreadIds : ProcessingSelect(w)
    \/ \E w \in ProcessingThreadIds : SkipIteration(w)
    \/ \E w \in ProcessingThreadIds : IgnorePair(w)
    \/ \E w \in ProcessingThreadIds : TransferEmpty1(w)
    \/ \E w \in ProcessingThreadIds : TransferEmpty2(w)
    \/ \E w \in ProcessingThreadIds : TransferPush(w)
    \/ \E w \in ProcessingThreadIds : TransferDone(w)
    \/ \E w \in ProcessingThreadIds : ApplyEmpty(w)
    \/ \E w \in ProcessingThreadIds : ApplySize(w)
    \/ \E w \in ProcessingThreadIds : ApplyArg(w)
    \/ MainTargetReached
    \/ MainTimeout
    \/ MainStopProcessing
    \/ MainStopData
    \/ MainStopFunction
    \/ MainReport
    \/ MainJoin

Spec == Init /\ [][Next]_vars

\* The steps of one thread of the program, a wake-up without notification
\* left out.
ThreadStep(t) ==
    \/ (QLock(t) \/ QPush(t) \/ QPop(t)) /\ UNCHANGED <<cvars, evars, wvars, gvars>>
    \/ t \in DataThreadIds /\ DataGenerate(t)
    \/ t \in FunctionThreadIds /\ FunctionGenerate(t)
    \/ t \in Producers /\ ProducerExit(t)
    \/ /\ t \in ProcessingThreadIds
       /\ \/ ProcessingExit(t) \/ ProcessingSelect(t) \/ SkipIteration(t)
          \/ IgnorePair(t) \/ TransferEmpty1(t) \/ TransferEmpty2(t)
          \/ TransferPush(t) \/ TransferDone(t) \/ ApplyEmpty(t)
          \/ ApplySize(t) \/ ApplyArg(t)

\* The program under a scheduler that runs every thread that can take a
\* step again and again: every thread sleeps between its queue calls, so a
\* thread that waits for a mutex finds it free sooner or later.
FairConfigurations ==
    { Cfg(<<"d1", "d2">>, <<>>, <<"p1">>, 1),
      Cfg(<<"d1">>, <<"f1">>, <<"p1">>, 1),
      Cfg(<<>>, <<"f1", "f2">>, <<"p1">>, 1),
      Cfg(<<>>, <<>>, <<"p1">>, 1) }

FairSpec ==
    /\ InitOf(FairConfigurations)
    /\ [][Next]_vars
    /\ \A t \in ProgramThreads : SF_vars(ThreadStep(t))

\* The runs in which the counter cannot advance (no processing thread; one
\* queue; no data queue; no function queue; no queue) and one in which it
\* can.
MonitorConfigurations ==
    { Cfg(<<"d1">>, <<"f1">>, <<>>, 1),
      Cfg(<<"d1">>, <<>>, <<"p1">>, 1),
      Cfg(<<>>, <<"f1", "f2">>, <<"p1">>, 1),
      Cfg(<<"d1", "d2">>, <<>>, <<"p1">>, 1),
      Cfg(<<>>, <<>>, <<"p1">>, 1),
      Cfg(<<"d1">>, <<"f1">>, <<"p1">>, 1) }

\* The program with a main thread that is scheduled: its monitor loop sleeps
\* 500 ms per round and calls nothing that blocks, and the clock it reads
\* passes 60 s. Nothing is assumed of the other threads.
FairMainSpec ==
    /\ InitOf(MonitorConfigurations)
    /\ [][Next]_vars
    /\ WF_vars(MainTargetReached \/ MainTimeout)

\* ------------------------------------------- construction of queues
\* A process in which no thread makes a queue call and the program's threads
\* do not exist.
IdleProcess ==
    /\ elements = [q \in Queues |-> <<>>]
    /\ maxCapacity = [q \in Queues |-> MaxCap]
    /\ mtx = [q \in Queues |-> NoOwner]
    /\ frame = [t \in Threads |-> NoCall]
    /\ ret = [t \in Threads |-> NoValue]
    /\ pushed = <<>>
    /\ popped = <<>>
    /\ took = [w \in ProcessingThreadIds |-> <<>>]
    /\ role = [t \in Clients |-> "popper"]
    /\ calls = [t \in Clients |-> MaxOps]
    /\ NoProgram

\* A process that constructs queues: the tests' Queue<int>, and the queues of
\* data threads and function threads, in any order and from any thread.
InitIds ==
    /\ IdleProcess
    /\ NoEvaluation
    /\ NoStartup
    /\ uniqueId = [q \in Queues |-> NoId]
    /\ globalRunningID = [u \in TranslationUnits |-> 0]

NextIds == \E q \in Queues : Construct(q)

SpecIds == InitIds /\ [][NextIds]_vars

\* ------------------------------------------------ ArithmeticFunction
\* The operands a descriptor is built with, one of each alternative of
\* DataValue among them, and the four operations.
OperandValues == {IntV(0), IntV(3), IntV(0 - 7), FloatV(2), ComplexV(1, 1)}
Operations == {"ADD", "SUBTRACT", "MULTIPLY", "DIVIDE"}
Descriptors ==
    {Fn(op, l, r) : op \in Operations,
                    l \in {<<>>} \cup {<<v>> : v \in OperandValues},
                    r \in {<<>>} \cup {<<v>> : v \in OperandValues}}

\* The args vectors processFunctionWithData builds for descriptor f: one
\* popped value for each operand f leaves unset.
ArgVectors(f) == [1..RequiredArgs(f) -> OperandValues]

\* Any descriptor with an args vector built for it, before requiredArgs and
\* applyFunction are called on it.
InitFunctions ==
    /\ IdleProcess
    /\ uniqueId = [q \in Queues |-> NoId]
    /\ globalRunningID = [u \in TranslationUnits |-> 0]
    /\ descriptor \in Descriptors
    /\ needed = NotEvaluated
    /\ fnArgs \in ArgVectors(descriptor)
    /\ resolved = <<>>
    /\ result = NoResult
    /\ NoStartup

CallRequiredArgs ==
    /\ needed = NotEvaluated
    /\ needed' = RequiredArgs(descriptor)
    /\ UNCHANGED <<qvars, cvars, wvars, gvars, ivars, svars>>
    /\ UNCHANGED <<descriptor, fnArgs, resolved, result>>

\* applyFunction(func, args): the operands are resolved, then the operation
\* is carried out in their common type, or throws.
CallApplyFunction ==
    /\ resolved = <<>>
    /\ resolved' = <<LeftOperand(descriptor, fnArgs), RightOperand(descriptor, fnArgs)>>
    /\ result' = IF ApplyThrows(descriptor, fnArgs)
                 THEN Threw
                 ELSE ApplyResult(descriptor, fnArgs)
    /\ UNCHANGED <<qvars, cvars, wvars, gvars, ivars, svars>>
    /\ UNCHANGED <<descriptor, fnArgs, needed>>

NextFunctions == CallRequiredArgs \/ CallApplyFunction

SpecFunctions == InitFunctions /\ [][NextFunctions]_vars

\* ----------------------------------------------------- main's arguments
\* A string is a sequence of characters. The arguments tried are made of a
\* sign, a digit and a character that is neither.
MaxArgLen == 2
ArgChars == {"-", "2", "x"}
ArgStrings == UNION {[1..n -> ArgChars] : n \in 0..MaxArgLen}
Digits == {"0", "1", "2", "3", "4", "5", "6", "7", "8", "9"}
DigitValue(c) ==
    CASE c = "0" -> 0 [] c = "1" -> 1 [] c = "2" -> 2 [] c = "3" -> 3
      [] c = "4" -> 4 [] c = "5" -> 5 [] c = "6" -> 6 [] c = "7" -> 7
      [] c = "8" -> 8 [] OTHER -> 9

\* The number of digits str starts with.
RECURSIVE DigitPrefix(_)
DigitPrefix(str) ==
    IF str = <<>> \/ Head(str) \notin Digits THEN 0 ELSE 1 + DigitPrefix(Tail(str))

\* The value of a sequence of digits.
RECURSIVE DecimalValue(_)
DecimalValue(ds) ==
    IF ds = <<>> THEN 0
    ELSE DecimalValue(SubSeq(ds, 1, Len(ds) - 1)) * 10 + DigitValue(ds[Len(ds)])

\* std::stoi(str): an optional sign and the longest run of digits after it
\* are converted, and what follows the digits is ignored; without a digit
\* it throws invalid_argument. The strings tried hold no white space and
\* fewer than ten digits, so nothing is skipped and out_of_range is not
\* thrown.
Stoi(str) ==
    LET signed == str # <<>> /\ Head(str) \in {"-", "+"}
        body == IF signed THEN Tail(str) ELSE str
        n == DigitPrefix(body)
    IN  IF n = 0
        THEN [ok |-> FALSE, value |-> 0]
        ELSE [ok |-> TRUE,
              value |-> IF signed /\ Head(str) = "-"
                        THEN 0 - DecimalValue(SubSeq(body, 1, n))
                        ELSE DecimalValue(SubSeq(body, 1, n))]

\* main up to the creation of the threads: the usage error, the conversion
\* of NF, ND, NP and NA (an exception of stoi is caught: return 1), the sign
\* check, and the creation of ND + NF + NP threads.
MainStartup ==
    /\ exitStatus = NotStarted
    /\ IF Len(argv) # 4
       THEN exitStatus' = 1 /\ created' = 0
       ELSE IF \E i \in 1..4 : ~Stoi(argv[i]).ok
       THEN exitStatus' = 1 /\ created' = 0
       ELSE IF \E i \in 1..4 : Stoi(argv[i]).value < 0
       THEN exitStatus' = 1 /\ created' = 0
       ELSE /\ exitStatus' = 0
            /\ created' = Stoi(argv[1]).value + Stoi(argv[2]).value + Stoi(argv[3]).value
    /\ UNCHANGED <<qvars, cvars, wvars, gvars, ivars, avars, argv>>

\* Any four arguments, and command lines with fewer or more.
InitStartup ==
    /\ IdleProcess
    /\ NoEvaluation
    /\ uniqueId = [q \in Queues |-> NoId]
    /\ globalRunningID = [u \in TranslationUnits |-> 0]
    /\ argv \in [1..4 -> ArgStrings]
                \cup {[i \in 1..n |-> <<"2">>] : n \in {0, 1, 2, 3, 5}}
    /\ exitStatus = NotStarted
    /\ created = 0

NextStartup == MainStartup

SpecStartup == InitStartup /\ [][NextStartup]_vars

\* ------------------------------------------------------------- claims
\* Thread t, holding the mutex of q in a push, appends and returns.
PushCompletes(t, q) ==
    frame[t].op = "push" /\ frame[t].q = q /\ frame[t].at = "cs" /\ frame'[t] = NoCall

\* Thread t, holding the mutex of q in a pop, removes the front and returns.
PopCompletes(t, q) ==
    frame[t].op = "pop" /\ frame[t].q = q /\ frame[t].at = "cs" /\ frame'[t] = NoCall

ParkedIn(op, q) == {u \in Parked(q) : frame[u].op = op}

\* The thread this step takes out of the cv's wait set is in a call of op.
WakesOne(op, q) ==
    \E u \in ParkedIn(op, q) : frame'[u].at = "woken"

\* C1: the values popped from a queue, in order of removal, followed by the
\* values it still holds, are exactly the values pushed, in order of
\* appending: nothing is dropped, duplicated or reordered, under every
\* interleaving of the clients' push and pop calls.
C1_Fifo == pushed = popped \o elements[HQ]

\* Three values went through the queue, pushed by more than one thread.
C1_Witness ==
    /\ Len(popped) = 3
    /\ \E i, j \in 1..3 : popped[i].re \div 10 # popped[j].re \div 10

\* C3: a push that holds the mutex of a queue with len < C appends its item
\* and returns in that step; with len = C it leaves the queue as it is and
\* waits; a queue grows only from len < C and shrinks only by a completing pop.
C3_PushBlocksOnlyWhenFull ==
    [][\A q \in Queues :
        /\ \A t \in Threads :
            (frame[t].op = "push" /\ frame[t].q = q /\ frame[t].at = "cs"
                /\ frame'[t] # frame[t]) =>
              IF Len(elements[q]) < maxCapacity[q]
              THEN /\ elements'[q] = Append(elements[q], frame[t].elem)
                   /\ frame'[t] = NoCall
              ELSE /\ elements'[q] = elements[q]
                   /\ frame'[t].at = "wait"
        /\ Len(elements'[q]) > Len(elements[q]) => Len(elements[q]) < maxCapacity[q]
        /\ Len(elements'[q]) < Len(elements[q]) => \E u \in Threads : PopCompletes(u, q)
      ]_vars

\* A push is parked on a full queue that earlier pushes filled.
C3_Witness ==
    /\ Len(elements[HQ]) = maxCapacity[HQ]
    /\ ParkedIn("push", HQ) # {}
    /\ maxCapacity[HQ] = MaxCap

\* Client u will not push again.
NoMorePushes(u) ==
    /\ frame[u].op # "push"
    /\ role[u] = "popper" \/ calls[u] = MaxOps

\* The scenario of C4: capacity 1, one item held, b parked in push, nobody
\* else waiting on the queue.
C4_Pre(b) ==
    /\ maxCapacity[HQ] = 1
    /\ Len(elements[HQ]) = 1
    /\ frame[b].op = "push" /\ frame[b].at = "wait"
    /\ \A u \in Clients \ {b} : frame[u].at \notin {"wait", "woken"}

\* b has been taken out of the wait after the pop emptied the queue.
C4_Woken(b) ==
    /\ maxCapacity[HQ] = 1
    /\ elements[HQ] = <<>>
    /\ frame[b].op = "push" /\ frame[b].at = "woken"
    /\ \A u \in Clients \ {b} : NoMorePushes(u)

\* C4: on a capacity-1 queue holding one item with one thread parked in push
\* and no other waiter, a pop returns the held item and takes the parked push
\* out of its wait; that push then eventually appends its item (no other
\* thread pushing), and its item is then the one the next pop returns (the
\* head of the queue).
C4_Handoff ==
    /\ [][\A b \in Clients : \A t \in Clients :
            (C4_Pre(b) /\ PopCompletes(t, HQ)) =>
                /\ ret'[t] = Head(elements[HQ])
                /\ frame'[b].at = "woken"]_vars
    /\ \A b \in Clients : C4_Woken(b) ~> (frame[b] = NoCall)
    /\ [][\A b \in Clients :
            (PushCompletes(b, HQ) /\ maxCapacity[HQ] = 1) =>
                elements'[HQ] = <<frame[b].elem>>]_vars
    /\ [][\A t \in Clients :
            PopCompletes(t, HQ) => ret'[t] = Head(elements[HQ])]_vars

\* The woken push of the scenario is about to run: one value was popped, the
\* queue is empty.
C4_Witness == \E b \in Clients : C4_Woken(b) /\ Len(popped) = 1

\* C5 as claimed: the wake-up of a completing push goes to a parked pop when
\* there is one, the wake-up of a completing pop to a parked push when there
\* is one.
C5_WakeGoesToOtherSide ==
    [][\A q \in Queues : \A t \in Threads :
        /\ (PushCompletes(t, q) /\ ParkedIn("pop", q) # {}) => WakesOne("pop", q)
        /\ (PopCompletes(t, q) /\ ParkedIn("push", q) # {}) => WakesOne("push", q)
      ]_vars

\* C2: every queue holds between 0 and C items, whoever pushes into it (the
\* owning producer and the processing threads that transfer into it) and
\* whoever pops from it.
C2_Bounded ==
    \A q \in Queues :
        maxCapacity[q] >= 1 => (0 <= Len(elements[q]) /\ Len(elements[q]) <= maxCapacity[q])

\* A full queue of the largest capacity with its owner and a transferring
\* processing thread both parked in push.
C2_Witness ==
    \E q \in DataThreadIds : \E w \in ProcessingThreadIds :
        /\ maxCapacity[q] = MaxCap
        /\ Len(elements[q]) = MaxCap
        /\ {q, w} \subseteq ParkedIn("push", q)

\* The threads main created.
Workers == Range(dataThreads) \cup Range(functionThreads) \cup Range(processingThreads)

\* C6 as claimed: while a processing thread is running and not stopped, the
\* producers and the processing threads are never all parked in a push or a
\* pop at the same time.
C6_NoGlobalDeadlock ==
    (\E w \in Range(processingThreads) : pc[w] # "done" /\ ~shouldStop[w])
        => ~(\A t \in Workers : frame[t].at = "wait")

\* main has called stop() on every thread of the three vectors.
AllStopSignalled ==
    /\ pc[Main] \in {"report", "join"}
    /\ \A t \in Workers : shouldStop[t]

\* t waits on the cv of a queue whose state does not let it go on: no
\* wake-up, notified or spurious, gets it out of the wait.
ParkedForGood(t) ==
    /\ frame[t].at = "wait"
    /\ IF frame[t].op = "push"
       THEN ~NotFull(elements[frame[t].q], maxCapacity[frame[t].q])
       ELSE ~NotEmpty(elements[frame[t].q])

\* C7 as claimed, in the form a finite run refutes: once stop has been
\* signalled to every thread, the run does not come to rest (every thread
\* either out of its loop or parked for good) before every thread has left
\* its work loop; threads parked when stop is signalled included.
C7_StopEndsEveryThread ==
    (AllStopSignalled /\ \A t \in Workers : pc[t] = "done" \/ ParkedForGood(t))
        => \A t \in Workers : pc[t] = "done"

\* The number of values w has removed from the data queue in the application
\* it is making.
ArgsTaken(w) == Len(SelectSeq(took[w], LAMBDA q : q = qb[w]))

\* C8 as claimed: an application attempt takes all of its arguments or none.
\* A processing thread that has removed some but not all of the arguments
\* of its function finds the rest in the data queue: it never removed values
\* from a data queue that held fewer than requiredArgs() of them.
C8_AllOrNothing ==
    \A w \in Range(processingThreads) :
        (pc[w] = "fd_arg" /\ 0 < ArgsTaken(w) /\ ArgsTaken(w) < RequiredArgs(func[w]))
            => Len(elements[qb[w]]) >= RequiredArgs(func[w]) - ArgsTaken(w)

\* Processing thread w is at the point of processFunctionWithData where
\* applyFunction is called: popFunction has returned a function that needs
\* no argument, or the popValue of the last argument has returned.
AppliesNow(w) ==
    /\ frame[w] = NoCall
    /\ pc'[w] = "loop"
    /\ \/ pc[w] = "fd_popf" /\ RequiredArgs(ret[w]) = 0
       \/ pc[w] = "fd_arg" /\ Len(args[w]) + 1 = RequiredArgs(func[w])

AppliedFunction(w) == IF pc[w] = "fd_popf" THEN ret[w] ELSE func[w]
AppliedArgs(w) == IF pc[w] = "fd_popf" THEN <<>> ELSE Append(args[w], ret[w])

\* The step is a successful application by w: applyFunction returns a value.
Succeeds(w) == AppliesNow(w) /\ ~ApplyThrows(AppliedFunction(w), AppliedArgs(w))

\* C9: functionsProcessed starts at 0; a step changes it only by +1 and only
\* when it is the end of a successful application, so no transfer, pair of
\* function queues, empty function queue, abort for want of arguments or
\* failed division changes it and it never decreases; in every state it is
\* the number of successful applications made so far.
C9_CounterCountsSuccesses ==
    /\ functionsProcessed = 0
    /\ [](functionsProcessed = executions)
    /\ [][/\ functionsProcessed' # functionsProcessed =>
                /\ functionsProcessed' = functionsProcessed + 1
                /\ \E w \in Range(processingThreads) : Succeeds(w)
          /\ \A w \in Range(processingThreads) :
                Succeeds(w) => functionsProcessed' = functionsProcessed + 1
         ]_vars

\* Two processing threads have each completed an application; the counter is
\* past the target.
C9_Witness ==
    /\ functionsProcessed = MaxTarget + 1
    /\ maxFunctions = MaxTarget

\* C10: at the end of a successful application the processing thread has
\* popped once from the function queue and then requiredArgs() times from
\* the data queue, each pop taking the head; the step pushes nothing, leaves
\* every queue as it is and adds 1 to functionsProcessed.  No push is made
\* from processFunctionWithData, and a function with both operands fixed is
\* applied as soon as it is popped, whatever the data queue holds.
C10_SuccessfulApplication ==
    /\ [][\A w \in Range(processingThreads) :
            Succeeds(w) =>
                /\ took[w] = <<qa[w]>> \o [i \in 1..RequiredArgs(AppliedFunction(w)) |-> qb[w]]
                /\ elements' = elements
                /\ frame'[w] = NoCall
                /\ functionsProcessed' = functionsProcessed + 1]_vars
    /\ [][\A w \in Range(processingThreads) : \A q \in Queues :
            PopCompletes(w, q) =>
                /\ ret'[w] = Head(elements[q])
                /\ elements'[q] = Tail(elements[q])]_vars
    /\ [](\A w \in Range(processingThreads) :
            pc[w] \in {"fd_empty", "fd_popf", "fd_arg"} => frame[w].op # "push")
    /\ [][\A w \in Range(processingThreads) :
            (/\ pc[w] = "fd_popf" /\ pc'[w] # "fd_popf"
             /\ RequiredArgs(ret[w]) = 0 /\ ~ApplyThrows(ret[w], <<>>))
                => /\ functionsProcessed' = functionsProcessed + 1
                   /\ took[w] = <<qa[w]>>]_vars

\* A function with both operands fixed has been popped and is about to be
\* applied while the data queue is empty; an application was completed before.
C10_Witness ==
    \E w \in Range(processingThreads) :
        /\ pc[w] = "fd_popf" /\ frame[w] = NoCall
        /\ RequiredArgs(ret[w]) = 0
        /\ elements[qb[w]] = <<>>
        /\ functionsProcessed >= 1

\* The step is an application by w in which applyFunction throws: func and
\* every argument have been popped, the division is by zero.
Fails(w) ==
    /\ frame[w] = NoCall
    /\ pc'[w] # pc[w]
    /\ \/ pc[w] = "fd_popf" /\ RequiredArgs(ret[w]) = 0
       \/ pc[w] = "fd_arg" /\ Len(args[w]) + 1 = RequiredArgs(func[w])
    /\ ApplyThrows(AppliedFunction(w), AppliedArgs(w))

\* C11: a DIVIDE whose right operand, fixed or popped, is 0 fails: the
\* function and the arguments were popped and are put back into no queue,
\* functionsProcessed is unchanged, and the processing thread is back at its
\* loop condition, neither stopped nor finished.  An application whose right
\* operand is 0 is never counted.
C11_FailedDivision ==
    /\ [][\A w \in Range(processingThreads) :
            Fails(w) =>
                /\ took[w] = <<qa[w]>> \o [i \in 1..RequiredArgs(AppliedFunction(w)) |-> qb[w]]
                /\ elements' = elements
                /\ frame'[w] = NoCall
                /\ functionsProcessed' = functionsProcessed
                /\ pc'[w] = "loop"
                /\ shouldStop'[w] = shouldStop[w]]_vars
    /\ [][\A w \in Range(processingThreads) :
            (/\ frame[w] = NoCall
             /\ pc[w] = "fd_arg" /\ pc'[w] # "fd_arg"
             /\ Len(args[w]) + 1 = RequiredArgs(func[w])
             /\ func[w].op = "DIVIDE"
             /\ RightOperand(func[w], Append(args[w], ret[w])) = IntV(0))
                => functionsProcessed' = functionsProcessed]_vars

\* A DIVIDE without fixed operands has popped 0 as its right operand and is
\* about to be applied.
C11_Witness ==
    \E w \in Range(processingThreads) :
        /\ pc[w] = "fd_arg" /\ frame[w] = NoCall
        /\ func[w] = Fn("DIVIDE", <<>>, <<>>)
        /\ Len(args[w]) = 1
        /\ ret[w] = IntV(0)
        /\ took[w] = <<qa[w], qb[w], qb[w]>>

\* Processing thread w is inside processDataToData.
InTransfer(w) == pc[w] \in {"dd_empty1", "dd_empty2", "dd_pop", "dd_push"}

\* The value w holds between the pop and the push of a transfer, if any:
\* popValue has returned and pushValue has not appended yet.
InFlight(w) ==
    IF pc[w] = "dd_pop" /\ frame[w] = NoCall THEN <<ret[w]>>
    ELSE IF pc[w] = "dd_push" /\ frame[w] # NoCall THEN <<frame[w].elem>>
    ELSE <<>>

\* The number of copies of v the data queues and the transfers under way hold.
CopiesHeld(v) ==
    Cardinality({p \in Range(dataThreads) \X (1..MaxCap) :
                    p[2] <= Len(elements[p[1]]) /\ elements[p[1]][p[2]] = v})
    + Cardinality({w \in Range(processingThreads) : InFlight(w) = <<v>>})

\* The step is one of processing thread w.
StepOf(w) == pc'[w] # pc[w] \/ (frame[w].at = "cs" /\ frame'[w] # frame[w])

\* C12: a transfer pops the head of the source data queue, leaving the
\* destination as it is, and then appends that value at the tail of the
\* destination, a different data queue, leaving the source as it is; no step
\* of a transfer changes the number of copies of any value that the data
\* queues and the transfers under way hold together, so nothing is duplicated
\* or lost and the total held is the same after a transfer as before.
C12_TransferMoves ==
    /\ [][\A w \in Range(processingThreads) :
            (pc[w] = "dd_pop" /\ PopCompletes(w, qa[w])) =>
                /\ ret'[w] = Head(elements[qa[w]])
                /\ elements'[qa[w]] = Tail(elements[qa[w]])
                /\ elements'[qb[w]] = elements[qb[w]]]_vars
    /\ [][\A w \in Range(processingThreads) :
            (pc[w] = "dd_pop" /\ pc'[w] = "dd_push") =>
                /\ qa[w] # qb[w]
                /\ {qa[w], qb[w]} \subseteq Range(dataThreads)
                /\ took[w] = <<qa[w]>>
                /\ frame'[w] = Call("push", qb[w], ret[w])]_vars
    /\ [][\A w \in Range(processingThreads) :
            (pc[w] = "dd_push" /\ frame[w].at = "cs" /\ frame'[w] = NoCall) =>
                /\ elements'[qb[w]] = Append(elements[qb[w]], frame[w].elem)
                /\ elements'[qa[w]] = elements[qa[w]]]_vars
    /\ [][\A w \in Range(processingThreads) :
            (InTransfer(w) /\ StepOf(w)) =>
                \A v \in {IntV(0), IntV(3)} : CopiesHeld(v)' = CopiesHeld(v)]_vars

\* A transfer is complete: the queue of d2 ends with the value that only d1
\* generates, and the processing thread that moved it is back from pushValue.
C12_Witness ==
    \E w \in Range(processingThreads) :
        /\ pc[w] = "dd_push" /\ frame[w] = NoCall
        /\ qa[w] = "d1" /\ qb[w] = "d2"
        /\ elements["d2"] # <<>>
        /\ elements["d2"][Len(elements["d2"])] = IntV(3)

\* C13 as claimed: no processing thread is ever parked in the pop of the
\* source of a transfer or in the pop of a function: an empty queue makes the
\* iteration a no-op instead.
C13_NeverParksInPop ==
    \A w \in Range(processingThreads) :
        ~(/\ pc[w] \in {"dd_pop", "fd_popf"}
          /\ frame[w].op = "pop"
          /\ frame[w].at = "wait"
          /\ elements[frame[w].q] = <<>>)

\* C14: the iteration that selected two function queues ends without a
\* queue operation: the step that ends it changes no queue and not the
\* counter, and while a processing thread is in it, it is in no push or pop
\* and has popped nothing.
C14_FunctionPairIgnored ==
    /\ [](\A w \in Range(processingThreads) :
            pc[w] = "ff" =>
                /\ {qa[w], qb[w]} \subseteq Range(functionThreads)
                /\ frame[w] = NoCall
                /\ took[w] = <<>>)
    /\ [][\A w \in Range(processingThreads) :
            (pc[w] = "ff" /\ pc'[w] # "ff") =>
                /\ pc'[w] = "loop"
                /\ elements' = elements
                /\ frame' = frame
                /\ functionsProcessed' = functionsProcessed]_vars

\* A processing thread has selected two function queues that both hold a
\* function.
C14_Witness ==
    \E w \in Range(processingThreads) :
        /\ pc[w] = "ff"
        /\ elements[qa[w]] # <<>>
        /\ elements[qb[w]] # <<>>

\* C15: selectTwoRandomQueues returns two different indices of
\* 0..totalQueues-1, or {-1, -1} when there are fewer than two queues; the
\* queues of a selected pair are different queues of created producers; and
\* with fewer than two queues a processing thread makes no push or pop, so
\* no step of it changes a queue or the counter, which stays 0.
C15_Selection ==
    /\ [](\A sel \in SelectTwoRandomQueues :
            IF TotalQueues < 2
            THEN sel = <<-1, -1>>
            ELSE /\ sel[1] # sel[2]
                 /\ {sel[1], sel[2]} \subseteq 0..TotalQueues - 1)
    /\ [](\A w \in Range(processingThreads) :
            qa[w] # "none" =>
                /\ qa[w] # qb[w]
                /\ {qa[w], qb[w]} \subseteq Range(dataThreads) \cup Range(functionThreads))
    /\ [](TotalQueues < 2 =>
            /\ functionsProcessed = 0
            /\ \A w \in Range(processingThreads) :
                /\ pc[w] \in {"loop", "skip", "done"}
                /\ frame[w] = NoCall
                /\ took[w] = <<>>)
    /\ [][\A w \in Range(processingThreads) :
            (TotalQueues < 2 /\ StepOf(w)) =>
                /\ elements' = elements
                /\ functionsProcessed' = functionsProcessed]_vars

\* With one data queue, which holds a value, a processing thread skips its
\* iteration.
C15_Witness ==
    \E w \in Range(processingThreads) :
        /\ TotalQueues = 1
        /\ pc[w] = "skip"
        /\ elements["d1"] # <<>>

\* C16 as claimed: the queues constructed in one process have pairwise
\* different ids.
C16_DistinctIds ==
    \A q1, q2 \in Queues :
        (q1 # q2 /\ uniqueId[q1] # NoId /\ uniqueId[q2] # NoId)
            => uniqueId[q1] # uniqueId[q2]

\* C17: requiredArgs() is 0 for a descriptor with both operands set, 1 with
\* exactly one set and 2 with none set, whatever the operation.
C17_RequiredArgs ==
    needed # NotEvaluated =>
        /\ (descriptor.left # <<>> /\ descriptor.right # <<>>) => needed = 0
        /\ (descriptor.left # <<>> /\ descriptor.right = <<>>) => needed = 1
        /\ (descriptor.left = <<>> /\ descriptor.right # <<>>) => needed = 1
        /\ (descriptor.left = <<>> /\ descriptor.right = <<>>) => needed = 2

\* requiredArgs has returned for a MULTIPLY with only the left operand set.
C17_Witness ==
    /\ needed = 1
    /\ descriptor.op = "MULTIPLY"
    /\ descriptor.left # <<>>
    /\ descriptor.right = <<>>

\* main is in a call of stop(): the three loops of stop() calls, and the
\* stop() of the destructors.
StopStep ==
    /\ pc[Main] \in {"stop_processing", "stop_data", "stop_function", "join"}
    /\ pc'[Main] # pc[Main]

\* The threads stop() is called on in this step.
StopTargets ==
    CASE pc[Main] = "stop_processing" -> Range(processingThreads)
      [] pc[Main] = "stop_data" -> Range(dataThreads)
      [] pc[Main] = "stop_function" -> Range(functionThreads)
      [] OTHER -> Created

\* An item leaves the queue of producer q.
Shrinks(q) == Len(elements'[q]) < Len(elements[q])

\* C18: stop() only sets the stop flag of the thread it is called on: no
\* queue, no call in progress, no other thread's position and no other
\* flag changes, a second stop() changes nothing at all, main never waits
\* to make the call, and an item that leaves a stopped producer's queue is
\* the one at its front, returned to the thread that pops.
C18_StopOnlySetsFlag ==
    /\ [][StopStep =>
            /\ \A t \in StopTargets : shouldStop'[t]
            /\ \A t \in DOMAIN shouldStop \ StopTargets : shouldStop'[t] = shouldStop[t]
            /\ (\A t \in StopTargets : shouldStop[t]) => shouldStop' = shouldStop
            /\ UNCHANGED <<qvars, qa, qb, func, args, executions, functionsProcessed>>
            /\ \A t \in ProgramThreads : pc'[t] = pc[t]]_vars
    /\ [][\A q \in Producers : (shouldStop[q] /\ Shrinks(q)) =>
            /\ elements[q] = <<ElementsFront(elements[q])>> \o elements'[q]
            /\ \E w \in ProcessingThreadIds :
                /\ frame[w].op = "pop" /\ frame[w].q = q
                /\ ret'[w] = elements[q][1]]_vars
    /\ [](pc[Main] = "stop_processing" => ENABLED MainStopProcessing)
    /\ [](pc[Main] = "stop_data" => ENABLED MainStopData)
    /\ [](pc[Main] = "stop_function" => ENABLED MainStopFunction)

\* A processing thread is about to pop the front of the queue of a producer
\* that has been stopped and whose queue still holds an item.
C18_Witness ==
    \E w \in ProcessingThreadIds :
        /\ frame[w].op = "pop"
        /\ frame[w].at = "cs"
        /\ frame[w].q \in Producers
        /\ shouldStop[frame[w].q]
        /\ elements[frame[w].q] # <<>>

\* Producer t appends an item to its own queue in this step.
ProducerAppends(t) ==
    /\ frame[t].op = "push"
    /\ frame[t].q = t
    /\ frame[t].at = "cs"
    /\ elements'[t] = ElementsPush(elements[t], frame[t].elem)

\* C19: a producer whose stop flag is set appends no item to its queue.
C19_NoPushAfterStop ==
    [][\A t \in Producers : shouldStop[t] => ~ProducerAppends(t)]_vars

\* Processing thread w is parked inside a queue operation.
ParkedWorker(w) == frame[w].at = "wait"

Reported == pc[Main] \in {"join", "exit"}

\* C21 as claimed: the final sizes are reported after every thread has been
\* joined, so that no queue changes once the report has been made.
C21_ReportAfterJoin ==
    [][Reported => elements' = elements]_vars

\* C22: main's monitor loop can always be left, it is left only for the stop
\* phase, and it is left in every run, those in which the counter cannot
\* advance included.
C22_ReachesStopPhase ==
    /\ [](pc[Main] = "monitor" => ENABLED (MainTargetReached \/ MainTimeout))
    /\ [][(pc[Main] = "monitor" /\ pc'[Main] # "monitor")
            => pc'[Main] = "stop_processing"]_vars
    /\ <>(pc[Main] # "monitor")

\* main is in its stop phase in a run without processing threads, the
\* counter below the target.
C22_Witness ==
    /\ pc[Main] = "stop_processing"
    /\ processingThreads = <<>>
    /\ functionsProcessed < maxFunctions

\* str is the decimal notation of an integer.
IsInteger(str) ==
    LET body == IF str # <<>> /\ Head(str) = "-" THEN Tail(str) ELSE str
    IN  body # <<>> /\ \A i \in 1..Len(body) : body[i] \in Digits

\* C23 as claimed: with arguments that are not exactly four, not integers or
\* negative, main returns a non-zero status and has created no thread and
\* no queue.
C23_BadArgumentsRejected ==
    (/\ exitStatus # NotStarted
     /\ \/ Len(argv) # 4
        \/ \E i \in 1..Len(argv) : ~IsInteger(argv[i])
        \/ \E i \in 1..Len(argv) : IsInteger(argv[i]) /\ Head(argv[i]) = "-")
        => (exitStatus # 0 /\ created = 0)

\* C24 as claimed: a constructed queue has a capacity of at least 1.
C24_CapacityAtLeastOne ==
    \A q \in Queues : uniqueId[q] # NoId => maxCapacity[q] >= 1

\* C25: size() returns the number of completed pushes minus the number of
\* completed pops and empty() is true exactly when the two are equal; a
\* queue on which nothing was pushed is empty with size 0.
C25_SizeCountsPushesAndPops ==
    QReadable(HQ) =>
        /\ QSize(HQ) = Len(pushed) - Len(popped)
        /\ QEmpty(HQ) <=> (Len(pushed) = Len(popped))
        /\ (pushed = <<>>) => (QEmpty(HQ) /\ QSize(HQ) = 0)

\* One thread has pushed, popped and returned, no other thread has called
\* the queue, and size() reads 0.
C25_Witness ==
    /\ \E t \in Clients :
        /\ calls[t] = 2
        /\ frame[t] = NoCall
        /\ \A u \in Clients \ {t} : calls[u] = 0
    /\ Len(pushed) = 1
    /\ Len(popped) = 1
    /\ QReadable(HQ)
    /\ QSize(HQ) = 0

\* The threads that were woken from a wait on q and have not yet reacquired
\* its mutex.
WokenOn(q) == {u \in Threads : frame[u].q = q /\ frame[u].at = "woken"}

\* C26 as claimed: when no thread owns the mutex of a queue and no woken
\* thread is pending on it, no thread is parked in push with room in the
\* queue and no thread is parked in pop with an item in it.
C26_NoLostWakeup ==
    \A q \in Queues :
        (mtx[q] = NoOwner /\ WokenOn(q) = {}) =>
            /\ NotFull(elements[q], maxCapacity[q]) => ParkedIn("push", q) = {}
            /\ NotEmpty(elements[q]) => ParkedIn("pop", q) = {}

\* The call thread t is in cannot go on: a push on a full queue, a pop on an
\* empty one.
Blocked(t) ==
    \/ frame[t].op = "push" /\ Len(elements[frame[t].q]) >= maxCapacity[frame[t].q]
    \/ frame[t].op = "pop" /\ elements[frame[t].q] = <<>>

\* C27: a stop() changes the position of no thread inside a queue call, and
\* a thread whose stop flag is set stays in its push or pop for as long as
\* the queue is full, or empty; the queue changes under it only by the push
\* or pop of another thread.
C27_StopDoesNotWake ==
    /\ [][StopStep => frame' = frame]_vars
    /\ [][\A t \in ProgramThreads :
            (shouldStop[t] /\ Blocked(t)) =>
                /\ frame'[t].op = frame[t].op
                /\ frame'[t].q = frame[t].q
                /\ frame'[t].at # "none"
                /\ elements'[frame[t].q] # elements[frame[t].q] =>
                     \E u \in ProgramThreads \ {t} :
                        PushCompletes(u, frame[t].q) \/ PopCompletes(u, frame[t].q)]_vars

\* A stopped producer is parked in push on its full queue, and a stopped
\* processing thread is parked in a queue call.
C27_Witness ==
    /\ \E t \in Producers :
        shouldStop[t] /\ frame[t].op = "push" /\ frame[t].at = "wait" /\ Blocked(t)
    /\ \E w \in ProcessingThreadIds :
        shouldStop[w] /\ frame[w].at = "wait" /\ Blocked(w)

\* The queues whose mutex thread t owns.
Held(t) == {q \in Queues : mtx[q] = t}

\* C28: a thread owns the mutex of at most one queue, and only while it is
\* in the critical section of a call on that queue, never while it waits;
\* in a transfer the thread that pushes into the destination does not own
\* the mutex of the source.
C28_OneMutexAtATime ==
    \A t \in Threads :
        /\ Cardinality(Held(t)) <= 1
        /\ \A q \in Held(t) : frame[t].q = q /\ frame[t].at = "cs"
        /\ frame[t].at \in {"wait", "woken"} => Held(t) = {}
        /\ (t \in ProcessingThreadIds /\ pc[t] = "dd_push") => mtx[qa[t]] # t

\* A processing thread in a transfer owns the mutex of the destination, its
\* pop on the source done, while another thread waits in a call.
C28_Witness ==
    \E w \in ProcessingThreadIds :
        /\ pc[w] = "dd_push"
        /\ frame[w].at = "cs"
        /\ Held(w) = {qb[w]}
        /\ \E t \in Threads \ {w} : frame[t].at = "wait"

\* Processing thread w is in a call of isQueueEmpty() or getQueueSize(), and
\* the queue the call is made on.
Reading(w) ==
    \/ pc[w] \in {"dd_empty1", "dd_empty2", "fd_empty"}
    \/ pc[w] = "fd_popf" /\ frame[w] = NoCall
ReadQueue(w) == IF pc[w] = "fd_popf" THEN qb[w] ELSE qa[w]

\* C29: the mutex size() and empty() take is owned only by a thread in the
\* critical section of its call, never by a parked one; a call of empty()
\* returns at an instant at which it owns the mutex, with the emptiness the
\* queue has at that instant; and every call of size() or empty() returns,
\* threads parked on the queue or not.
C29_SizeAndEmptyReturn ==
    /\ [](\A q \in Queues : mtx[q] # NoOwner => frame[mtx[q]].at = "cs")
    /\ [][\A w \in ProcessingThreadIds :
            (Reading(w) /\ pc'[w] # pc[w]) =>
                /\ QReadable(ReadQueue(w))
                /\ pc[w] \in {"dd_empty1", "dd_empty2", "fd_empty"} =>
                     (pc'[w] = "loop" <=> elements[qa[w]] = <<>>)]_vars
    /\ \A w \in ProcessingThreadIds : Reading(w) ~> ~Reading(w)

\* A processing thread has read the emptiness of a queue on which another
\* thread is parked, and goes on to pop from it.
C29_Witness ==
    \E w \in ProcessingThreadIds :
        /\ pc[w] = "dd_pop"
        /\ frame[w].at = "lock"
        /\ \E t \in Producers : frame[t].at = "wait" /\ frame[t].q = qa[w]

\* The processing threads that can be past the loop condition when the
\* counter reaches the target, the one that reaches it not counted.
Overshoot == IF processingThreads = <<>> THEN 0 ELSE Len(processingThreads) - 1

\* C30, amended: the counter never exceeds the target by more than the
\* number of processing threads less one, and not at all without processing
\* threads.
C30_BoundedOvershoot == functionsProcessed <= maxFunctions + Overshoot

\* Two processing threads passed the loop condition below the target and
\* both counted: the counter is one above a target that is not 0.
C30_Witness ==
    /\ Len(processingThreads) = 2
    /\ maxFunctions > 0
    /\ functionsProcessed = maxFunctions + 1

\* C30 as claimed: the counter never exceeds target + (number of processing
\* threads - 1).
C30_AsClaimed == functionsProcessed <= maxFunctions + (Len(processingThreads) - 1)

\* Processing thread w gives up the function it popped in this step: the
\* return after the size check of processFunctionWithData.
Aborts(w) ==
    /\ pc[w] = "fd_popf"
    /\ frame[w] = NoCall
    /\ RequiredArgs(ret[w]) > 0
    /\ pc'[w] = "loop"

\* C31: an application given up for want of arguments happens with fewer
\* values in the data queue than the function needs; the thread has removed
\* the function from the function queue and nothing else, the step puts
\* nothing back and changes no queue and no counter, and the function is
\* dropped.
C31_AbortDropsFunction ==
    [][\A w \in ProcessingThreadIds :
        Aborts(w) =>
            /\ QSize(qb[w]) < RequiredArgs(ret[w])
            /\ took[w] = <<qa[w]>>
            /\ qa[w] \in Range(functionThreads)
            /\ elements' = elements
            /\ functionsProcessed' = functionsProcessed
            /\ executions' = executions
            /\ ret'[w] = NoValue
            /\ func'[w] = NoFunc
            /\ frame'[w] = NoCall]_vars

\* A processing thread is about to give up a function that needs two
\* arguments: it holds the function and the data queue holds one value.
C31_Witness ==
    \E w \in ProcessingThreadIds :
        /\ pc[w] = "fd_popf"
        /\ frame[w] = NoCall
        /\ RequiredArgs(ret[w]) = 2
        /\ QReadable(qb[w])
        /\ QSize(qb[w]) = 1

\* C32: applyFunction takes a fixed operand from the descriptor and an unset
\* one from the popped values, left before right: both unset, the first
\* value is the left operand and the second the right; one unset, the one
\* value is that operand.
C32_OperandOrder ==
    resolved # <<>> =>
        LET l == descriptor.left
            r == descriptor.right
        IN  /\ (l = <<>> /\ r = <<>>) => resolved = <<fnArgs[1], fnArgs[2]>>
            /\ (l # <<>> /\ r = <<>>) => resolved = <<l[1], fnArgs[1]>>
            /\ (l = <<>> /\ r # <<>>) => resolved = <<fnArgs[1], r[1]>>
            /\ (l # <<>> /\ r # <<>>) => resolved = <<l[1], r[1]>>

\* applyFunction has resolved the operands of a descriptor with only the
\* left operand set, the popped value being another value.
C32_Witness ==
    /\ resolved # <<>>
    /\ descriptor.left # <<>>
    /\ descriptor.right = <<>>
    /\ fnArgs[1] # descriptor.left[1]

Magnitude(n) == IF n < 0 THEN 0 - n ELSE n

\* The place of a type in Integer < Float < Complex.
Width(tag) == CASE tag = "int" -> 0 [] tag = "float" -> 1 [] OTHER -> 2

\* C33: a result of applyFunction holds the wider of the types of the two
\* operands, whatever the operation; the quotient of two ints is an int,
\* truncated toward zero.
C33_ResultType ==
    (resolved # <<>> /\ result # Threw) =>
        /\ Width(result.tag) >= Width(resolved[1].tag)
        /\ Width(result.tag) >= Width(resolved[2].tag)
        /\ result.tag \in {resolved[1].tag, resolved[2].tag}
        /\ (descriptor.op = "DIVIDE" /\ result.tag = "int") =>
             LET x == resolved[1].re
                 y == resolved[2].re
                 q == result.re
             IN  /\ result.den = 1
                 /\ Magnitude(q) * Magnitude(y) <= Magnitude(x)
                 /\ Magnitude(x) < (Magnitude(q) + 1) * Magnitude(y)
                 /\ q # 0 => ((q < 0) <=> ((x < 0) # (y < 0)))

\* applyFunction has divided the int -7 by the int 3 and returned the int
\* -2.
C33_Witness ==
    /\ descriptor.op = "DIVIDE"
    /\ resolved = <<IntV(0 - 7), IntV(3)>>
    /\ result = [tag |-> "int", re |-> 0 - 2, im |-> 0, den |-> 1]

\* Processing thread w dispatches on a selected pair in this step.
Dispatches(w) == pc[w] = "loop" /\ pc'[w] \in {"dd_empty1", "ff", "fd_empty"}

\* The pairs of indices that can be selected.
Pairs == {sel \in SelectTwoRandomQueues : sel[1] >= 0 /\ sel[2] >= 0}

\* The queue index i of the combined space stands for: a data queue below
\* the number of data queues, else the function queue at i less that number.
QueueAt(i) ==
    IF i < Len(dataThreads)
    THEN dataThreads[i + 1]
    ELSE functionThreads[i - Len(dataThreads) + 1]

\* C34: for every pair that can be selected, an index below the number of
\* data queues addresses that data queue and an index at or above it the
\* function queue at index less the number of data queues, which exists; a
\* data and function pair addresses the same function queue and data queue
\* in either order; and every dispatch of a processing thread is on the
\* queues of a selectable pair.
C34_IndexAddressing ==
    /\ [](\A sel \in Pairs :
            LET i == sel[1]
                j == sel[2]
                ND == Len(dataThreads)
                d == Addressed(i, j)
            IN  /\ \A k \in {i, j} :
                    k >= ND => (k - ND + 1) \in 1..Len(functionThreads)
                /\ {d.first, d.second} = {QueueAt(i), QueueAt(j)}
                /\ d.at = "dd_empty1" <=> (i < ND /\ j < ND)
                /\ d.at = "ff" <=> (i >= ND /\ j >= ND)
                /\ d.at = "dd_empty1" => (d.first = QueueAt(i) /\ d.second = QueueAt(j))
                /\ d.at = "fd_empty" =>
                    /\ d.first \in Range(functionThreads)
                    /\ d.second \in Range(dataThreads)
                    /\ Addressed(j, i) = d)
    /\ [][\A w \in ProcessingThreadIds :
            Dispatches(w) =>
                \E sel \in Pairs :
                    /\ pc'[w] = Addressed(sel[1], sel[2]).at
                    /\ {qa'[w], qb'[w]} = {QueueAt(sel[1]), QueueAt(sel[2])}]_vars

\* A processing thread has dispatched on a data and function pair in a run
\* with two function queues or two processing threads.
C34_Witness ==
    \E w \in ProcessingThreadIds :
        /\ pc[w] = "fd_empty"
        /\ qa[w] \in Range(functionThreads)
        /\ qb[w] \in Range(dataThreads)
        /\ Len(dataThreads) + Len(functionThreads) >= 2

\* Producer t has been started and its stop flag is not set.
Running(t) ==
    /\ t \in Range(dataThreads) \cup Range(functionThreads)
    /\ pc[t] = "run"
    /\ ~shouldStop[t]

\* The queue of producer t has room for an item.
HasRoom(t) == NotFull(elements[t], maxCapacity[t])

\* The producers of the run, data threads first, and the i-th of them (a
\* thread that is not created where there is none).
Started == dataThreads \o functionThreads
StartedNo(i) == IF i <= Len(Started) THEN Started[i] ELSE "d1"

\* The most producers a run has.
MaxStarted == 2

\* No processing thread ever pops from a queue of this run: there is no
\* processing thread, or no data queue (a pair of function queues is
\* ignored).
Undrained == processingThreads = <<>> \/ dataThreads = <<>>

\* Producer t holds the mutex of its queue in a push, and the queue has
\* room.
AtAppend(t) == frame[t] # NoCall /\ frame[t].at = "cs" /\ HasRoom(t)

====
